---- MODULE Spec2Model ----
(***************************************************************************)
(* Block/container document model of configupdater: a Document holding     *)
(* Section, Comment and Space blocks, Sections holding Option, Comment and  *)
(* Space blocks.  Objects live in a heap indexed by object id, so that      *)
(* object identity, container back-references and deep copies are explicit. *)
(* Text is a sequence of lines; a line is a triple <<class, a, b>>:         *)
(*   <<"hdr", name, tail>>   "[name]tail"                                   *)
(*   <<"opt", rawkey, v>>    "rawkey = v"  (v = NoValueTxt: "rawkey")       *)
(*   <<"cont", v, "">>       an indented continuation line of a value       *)
(*   <<"cmt", text, "">>     a comment line                                 *)
(*   <<"blank", "", "">>     a blank line                                   *)
(***************************************************************************)
EXTENDS Integers, Sequences, FiniteSets, TLC

\* ------------------------------------------------------------ bounds
MaxObj == 9        \* object ids 2..MaxObj (1 is the document, 0 is None)
MaxOps == 2        \* operations per behaviour of Spec
MaxCopyOps == 3    \* operations per behaviour of SpecCopy
MaxLines == 3      \* lines of an input text of SpecParse
MaxRunOps == 3     \* operations per behaviour of SpecRuns

\* ------------------------------------------------------------ domains
None == 0
Doc == 1
Ids == 2..MaxObj

Names == {"a", "b"}
Keys == {"k", "K", "m"}
NoValueTxt == "<none>"
NoneValue == <<>>                   \* Option value None: no value lines
Values == {<<"v">>, NoneValue}      \* values handed to set operations
CommentLine == <<"cmt", "# new", "">>
SpaceLine == <<"blank", "", "">>

\* fallback arguments of Document.get, encoded as integers that are no object id
UNSET == -2                         \* the _UNSET sentinel
FallbackX == -1                     \* some caller-supplied non-Option fallback
Fallbacks == {UNSET, None, FallbackX}

Free == [kind |-> "free", name |-> "", updated |-> FALSE, lines |-> <<>>,
         value |-> <<>>, structure |-> <<>>, container |-> None]

EmptyWorld == [h |-> [i \in Ids |-> Free], d |-> <<>>]

\* ------------------------------------------------------------ sequences
IndexOf(seq, x) ==
  IF \E i \in 1..Len(seq) : seq[i] = x
  THEN CHOOSE i \in 1..Len(seq) : seq[i] = x /\ \A j \in 1..(i-1) : seq[j] # x
  ELSE 0

RemoveAt(seq, i) == SubSeq(seq, 1, i-1) \o SubSeq(seq, i+1, Len(seq))

\* list.insert(i, x) with a 1-based position; a position past the end appends
InsertAt(seq, i, x) ==
  IF i > Len(seq) THEN Append(seq, x)
  ELSE SubSeq(seq, 1, i-1) \o <<x>> \o SubSeq(seq, i, Len(seq))

RECURSIVE Flatten(_)
Flatten(ss) == IF ss = <<>> THEN <<>> ELSE Head(ss) \o Flatten(Tail(ss))

Range(seq) == {seq[i] : i \in 1..Len(seq)}

\* ------------------------------------------------------------ results
Res(w, err, ret, flag) == [w |-> w, err |-> err, ret |-> ret, flag |-> flag]
Ok(w, ret) == Res(w, "", ret, FALSE)
OkFlag(w, flag) == Res(w, "", None, flag)
Raise(w, e) == Res(w, e, None, FALSE)

\* ------------------------------------------------------------ heap
FreeIds(w) == {i \in Ids : w.h[i].kind = "free"}
Alloc(w) == CHOOSE i \in FreeIds(w) : \A j \in FreeIds(w) : i <= j
HasFree(w, n) == Cardinality(FreeIds(w)) >= n
\* the id a constructor call would take; None when there is none left, for
\* calls that construct nothing
Fresh(w) == IF FreeIds(w) = {} THEN None ELSE Alloc(w)

SectionIds(w) == {i \in Ids : w.h[i].kind = "section"}
OptionIds(w) == {i \in Ids : w.h[i].kind = "option"}

\* Container.structure
Structure(w, c) == IF c = Doc THEN w.d ELSE w.h[c].structure
SetStructure(w, c, s) ==
  IF c = Doc THEN [w EXCEPT !.d = s] ELSE [w EXCEPT !.h[c].structure = s]

\* Container.last_block
LastBlock(w, c) ==
  IF Structure(w, c) = <<>> THEN None ELSE Structure(w, c)[Len(Structure(w, c))]

\* ------------------------------------------------------------ Document.optionxform
optionxform(k) == IF k = "K" THEN "k" ELSE IF k = "M" THEN "m" ELSE k

\* ------------------------------------------------------------ Block, Option
\* Block.updated: the flag, or no captured line at all (a block constructed
\* rather than parsed counts as updated)
Updated(w, b) == w.h[b].updated \/ w.h[b].lines = <<>>

\* Block.__str__: the captured lines
BlockStr(w, b) == w.h[b].lines

\* Block.add_line
AddLine(w, b, line) == [w EXCEPT !.h[b].lines = Append(@, line)]

\* Block.container: reading it on a detached block raises NotAttachedError
Container(w, b) ==
  IF w.h[b].container = None THEN Raise(w, "NotAttachedError")
  ELSE Ok(w, w.h[b].container)

\* Block.container_idx: NotAttachedError when detached, else the position of
\* the block in the structure of its container (ValueError when not in it)
ContainerIdx(w, b) ==
  IF Container(w, b).err # "" THEN Raise(w, Container(w, b).err)
  ELSE LET i == IndexOf(Structure(w, w.h[b].container), b)
       IN IF i = 0 THEN Raise(w, "ValueError") ELSE Ok(w, i)

\* Comment(container) / Space(container)
NewBlock(w, id, kind, container) ==
  [w EXCEPT !.h[id] = [Free EXCEPT !.kind = kind, !.container = container]]

\* Option(key, value, container): a fresh Option, not yet updated
NewOption(w, id, key, value, container) ==
  [w EXCEPT !.h[id] = [Free EXCEPT !.kind = "option", !.name = key,
                                    !.value = value, !.container = container]]

\* Option.key: the normalized key
Key(w, o) == optionxform(w.h[o].name)

\* Option.value setter
OptionSetValue(w, o, value) ==
  [w EXCEPT !.h[o].value = value, !.h[o].updated = TRUE]

\* Option.__str__: captured lines while untouched, else "rawkey = value" and
\* one continuation line per further value line ("rawkey" for a None value)
OptionStr(w, o) ==
  IF ~Updated(w, o) THEN BlockStr(w, o)
  ELSE IF w.h[o].value = NoneValue
       THEN << <<"opt", w.h[o].name, NoValueTxt>> >>
       ELSE << <<"opt", w.h[o].name, w.h[o].value[1]>> >>
            \o [i \in 1..(Len(w.h[o].value) - 1) |-> <<"cont", w.h[o].value[i+1], "">>]

\* Comment.__str__ / Space.__str__
PlainStr(w, b) == BlockStr(w, b)

\* ------------------------------------------------------------ Section
\* Section.__init__: _updated = False, empty structure
NewSection(w, id, name, container) ==
  [w EXCEPT !.h[id] = [Free EXCEPT !.kind = "section", !.name = name,
                                    !.updated = FALSE, !.container = container]]

\* Section.iter_options / option_blocks: the Option blocks in structure order
option_blocks(w, s) ==
  SelectSeq(w.h[s].structure, LAMBDA b : w.h[b].kind = "option")

\* Section.options: the keys in structure order
options(w, s) ==
  [i \in 1..Len(option_blocks(w, s)) |-> Key(w, option_blocks(w, s)[i])]

\* first option of the section whose key equals `key` exactly, or `default`
FirstOption(w, s, key, default) ==
  LET opts == option_blocks(w, s)
      hit == {i \in 1..Len(opts) : Key(w, opts[i]) = key}
  IN IF hit = {} THEN default
     ELSE opts[CHOOSE i \in hit : \A j \in hit : i <= j]

\* Section.add_option: appends, nothing else
add_option(w, s, entry) ==
  Ok(SetStructure(w, s, Append(w.h[s].structure, entry)), s)

\* whether add_comment / add_space constructs a block: the last block is not
\* of the kind
AddRunCreates(w, c, kind) ==
  ~(LastBlock(w, c) # None /\ w.h[LastBlock(w, c)].kind = kind)

\* add_comment / add_space that open a fresh block for every line
AddRunNoMerge(w, c, kind, line, id) ==
  AddLine(SetStructure(NewBlock(w, id, kind, c), c, Append(Structure(w, c), id)), id, line)

\* Section.add_comment / add_space: extend the last block when it is of the
\* kind, else append a fresh block of the kind; `id` is the fresh object's id
AddRun(w, c, kind, line, id) ==
  IF LastBlock(w, c) # None /\ w.h[LastBlock(w, c)].kind = kind
  THEN AddLine(w, LastBlock(w, c), line)
  ELSE AddLine(SetStructure(NewBlock(w, id, kind, c), c,
                            Append(Structure(w, c), id)), id, line)

add_comment(w, s, line, id) == Ok(AddRun(w, s, "comment", line, id), s)

add_space(w, s, line, id) == Ok(AddRun(w, s, "space", line, id), s)

\* Section._get_option_idx: position of the first Option whose key equals
\* `key` as given (no normalization); 0 stands for StopIteration
SectionGetOptionIdx(w, s, key) ==
  LET st == w.h[s].structure
      hit == {i \in 1..Len(st) : w.h[st[i]].kind = "option" /\ Key(w, st[i]) = key}
  IN IF hit = {} THEN 0 ELSE CHOOSE i \in hit : \A j \in hit : i <= j

\* str(entry) for an entry of a section
EntryStr(w, b) == IF w.h[b].kind = "option" THEN OptionStr(w, b) ELSE PlainStr(w, b)

\* Section.__str__ with the header always synthesized from the name
SectionStrSynthesized(w, s) ==
  << <<"hdr", w.h[s].name, "">> >>
  \o Flatten([i \in 1..Len(w.h[s].structure) |-> EntryStr(w, w.h[s].structure[i])])

\* Section.__str__ that renders the captured header whatever the flag says
SectionStrCaptured(w, s) ==
  BlockStr(w, s)
  \o Flatten([i \in 1..Len(w.h[s].structure) |-> EntryStr(w, w.h[s].structure[i])])

\* Section.__str__
SectionStr(w, s) ==
  (IF ~Updated(w, s) THEN BlockStr(w, s) ELSE << <<"hdr", w.h[s].name, "">> >>)
  \o Flatten([i \in 1..Len(w.h[s].structure) |-> EntryStr(w, w.h[s].structure[i])])

\* Section.__contains__ (also has_option): compares keys with `key` as given
SectionContains(w, s, key) == FirstOption(w, s, key, None) # None

\* Section.get
SectionGet(w, s, key, default) == FirstOption(w, s, key, default)

\* Section.__getitem__: self._container.optionxform needs the owning document
SectionGetItem(w, s, key) ==
  IF w.h[s].container = None THEN Raise(w, "AttributeError")
  ELSE IF FirstOption(w, s, optionxform(key), None) = None THEN Raise(w, "KeyError")
  ELSE Ok(w, FirstOption(w, s, optionxform(key), None))

\* Section.__setitem__; `isOpt` tells whether value is the Option object `o`
\* or the plain value `v`; `id` is the id of the Option it may create
SectionSetItem(w, s, key, isOpt, o, v, id) ==
  IF w.h[s].container = None THEN Raise(w, "AttributeError")
  ELSE IF SectionContains(w, s, optionxform(key))
  THEN IF isOpt
       THEN IF Key(w, o) # key THEN Raise(w, "ValueError")
            ELSE LET ci == ContainerIdx(w, SectionGetItem(w, s, key).ret)
                 IN IF ci.err # "" THEN Raise(w, ci.err)
                    ELSE IF ci.ret > Len(w.h[s].structure) THEN Raise(w, "IndexError")
                    ELSE Ok(SetStructure(w, s,
                               InsertAt(RemoveAt(w.h[s].structure, ci.ret), ci.ret, o)), None)
       ELSE Ok(OptionSetValue(w, SectionGetItem(w, s, key).ret, v), None)
  ELSE IF isOpt
       THEN Ok(SetStructure(w, s, Append(w.h[s].structure, o)), None)
       ELSE Ok(SetStructure(OptionSetValue(NewOption(w, id, key, v, s), id, v), s,
                            Append(w.h[s].structure, id)), None)

\* whether section[key] = plain_value constructs an Option: the else branch
SectionSetItemCreates(w, s, key) ==
  w.h[s].container # None /\ ~SectionContains(w, s, optionxform(key))

\* Section.__delitem__
SectionDelItem(w, s, key) ==
  IF SectionGetOptionIdx(w, s, key) = 0 THEN Raise(w, "KeyError")
  ELSE Ok(SetStructure(w, s, RemoveAt(w.h[s].structure, SectionGetOptionIdx(w, s, key))), None)

\* a name setter that stores the name and leaves the flag alone
SetNameKeepsFlag(w, s, value) == [w EXCEPT !.h[s].name = value]

\* Section.name setter
SetName(w, s, value) == [w EXCEPT !.h[s].name = value, !.h[s].updated = TRUE]

\* Section.set
SectionSet(w, s, option, value, id) ==
  IF w.h[s].container = None THEN Raise(w, "AttributeError")
  ELSE IF optionxform(option) \in Range(options(w, s))
  THEN Ok(OptionSetValue(w, SectionGetItem(w, s, optionxform(option)).ret, value), s)
  ELSE [SectionSetItem(w, s, optionxform(option), FALSE, None, value, id) EXCEPT !.ret = s]

\* Section.items: (key, Option) pairs in structure order
SectionItems(w, s) ==
  [i \in 1..Len(option_blocks(w, s)) |->
     <<Key(w, option_blocks(w, s)[i]), option_blocks(w, s)[i]>>]

\* Section.__iter__: the keys of the Option blocks, in structure order
SectionIter(w, s) ==
  LET bs == SelectSeq(w.h[s].structure, LAMBDA b : w.h[b].kind = "option")
  IN [i \in 1..Len(bs) |-> Key(w, bs[i])]

\* ------------------------------------------------------------ Document
\* a listing of the Section blocks that runs from the last block to the first
SectionBlocksReversed(w) ==
  LET sb == SelectSeq(w.d, LAMBDA b : w.h[b].kind = "section")
  IN [i \in 1..Len(sb) |-> sb[Len(sb) + 1 - i]]

\* Document.iter_sections / section_blocks: the Section blocks in structure order
section_blocks(w) == SelectSeq(w.d, LAMBDA b : w.h[b].kind = "section")

\* Document.sections: the names in structure order
sections(w) == [i \in 1..Len(section_blocks(w)) |-> w.h[section_blocks(w)[i]].name]

\* Document._get_section_idx; 0 stands for StopIteration
DocGetSectionIdx(w, name) ==
  LET hit == {i \in 1..Len(w.d) : w.h[w.d[i]].kind = "section" /\ w.h[w.d[i]].name = name}
  IN IF hit = {} THEN 0 ELSE CHOOSE i \in hit : \A j \in hit : i <= j

\* Document.get_section
get_section(w, name, default) ==
  LET secs == section_blocks(w)
      hit == {i \in 1..Len(secs) : w.h[secs[i]].name = name}
  IN IF hit = {} THEN default
     ELSE secs[CHOOSE i \in hit : \A j \in hit : i <= j]

\* Document.__contains__ (also has_section)
DocContains(w, key) == get_section(w, key, None) # None

\* Document.__getitem__
DocGetItem(w, key) ==
  IF get_section(w, key, None) = None THEN Raise(w, "KeyError")
  ELSE Ok(w, get_section(w, key, None))

\* str(block) for a block of the document
DocBlockStr(w, b) == IF w.h[b].kind = "section" THEN SectionStr(w, b) ELSE PlainStr(w, b)

\* Document.__str__ joining the sections only
DocStrSectionsOnly(w) ==
  Flatten([i \in 1..Len(section_blocks(w)) |-> SectionStr(w, section_blocks(w)[i])])

\* Document.__str__
DocStr(w) == Flatten([i \in 1..Len(w.d) |-> DocBlockStr(w, w.d[i])])

\* Document.add_section without the duplicate check
AddSectionUnchecked(w, argKind, name, sec, id) ==
  IF argKind \notin {"str", "section"} THEN Raise(w, "ValueError")
  ELSE IF argKind = "str"
       THEN Ok([NewSection(w, id, name, Doc) EXCEPT !.d = Append(@, id)], None)
       ELSE Ok([w EXCEPT !.d = Append(@, sec)], None)

\* Document.add_section; argKind is "str" (a name, the new Section gets `id`),
\* "section" (the Section object `sec`) or "other"
add_section(w, argKind, name, sec, id) ==
  IF argKind \notin {"str", "section"} THEN Raise(w, "ValueError")
  ELSE LET w1 == IF argKind = "str" THEN NewSection(w, id, name, Doc) ELSE w
           obj == IF argKind = "str" THEN id ELSE sec
       IN IF DocContains(w1, w1.h[obj].name)
          THEN Raise(w, "DuplicateSectionError")
          ELSE Ok([w1 EXCEPT !.d = Append(@, obj)], None)

\* Document.__setitem__; isSec tells whether value is the Section object `value`
DocSetItem(w, key, isSec, value) ==
  IF ~isSec THEN Raise(w, "ValueError")
  ELSE IF DocContains(w, key)
  THEN Ok([w EXCEPT !.d = InsertAt(RemoveAt(w.d, DocGetSectionIdx(w, key)),
                                   DocGetSectionIdx(w, key), value)], None)
  ELSE add_section(SetName(w, value, key), "section", key, value, None)

\* Document.remove_section
remove_section(w, name) ==
  IF DocGetSectionIdx(w, name) = 0 THEN OkFlag(w, FALSE)
  ELSE OkFlag([w EXCEPT !.d = RemoveAt(w.d, DocGetSectionIdx(w, name))], TRUE)

\* Document.__delitem__
DocDelItem(w, key) ==
  IF ~remove_section(w, key).flag THEN Raise(w, "KeyError")
  ELSE Ok(remove_section(w, key).w, None)

\* Document.options: the keys of a section, NoSectionError when missing
DocOptions(w, section) ==
  IF ~DocContains(w, section) THEN Raise(w, "NoSectionError")
  ELSE Ok(w, options(w, DocGetItem(w, section).ret))

\* Document.get that takes a None result for "not found"
DocGetNoneIsUnset(w, section, option, fallback) ==
  LET section_obj == get_section(w, section, UNSET)
      value == SectionGet(w, section_obj, optionxform(option), fallback)
  IN IF section_obj = UNSET THEN Raise(w, "NoSectionError")
     ELSE IF value = UNSET \/ value = None THEN Raise(w, "NoOptionError")
     ELSE Ok(w, value)

\* Document.get
DocGet(w, section, option, fallback) ==
  LET section_obj == get_section(w, section, UNSET)
      value == SectionGet(w, section_obj, optionxform(option), fallback)
  IN IF section_obj = UNSET THEN Raise(w, "NoSectionError")
     ELSE IF value = UNSET THEN Raise(w, "NoOptionError")
     ELSE Ok(w, value)

\* Document.has_option: `key in get_section(section, {})`
DocHasOption(w, section, option) ==
  IF get_section(w, section, None) = None THEN FALSE
  ELSE SectionContains(w, get_section(w, section, None), optionxform(option))

\* Document.set
DocSet(w, section, option, value, id) ==
  IF DocGetItem(w, section).err # "" THEN Raise(w, "NoSectionError")
  ELSE LET s == DocGetItem(w, section).ret
       IN IF SectionContains(w, s, optionxform(option))
          THEN IF SectionGetItem(w, s, optionxform(option)).err # ""
               THEN Raise(w, SectionGetItem(w, s, optionxform(option)).err)
               ELSE Ok(OptionSetValue(w, SectionGetItem(w, s, optionxform(option)).ret,
                                      value), Doc)
          ELSE [SectionSetItem(w, s, optionxform(option), FALSE, None, value, id)
                  EXCEPT !.ret = Doc]

\* whether doc.set(section, option, value) constructs an Option
DocSetCreates(w, section, option) ==
  /\ DocGetItem(w, section).err = ""
  /\ SectionSetItemCreates(w, DocGetItem(w, section).ret, option)

\* Document.remove_option
remove_option(w, section, option) ==
  IF DocGetItem(w, section).err # "" THEN Raise(w, "NoSectionError")
  ELSE LET s == DocGetItem(w, section).ret
       IN IF optionxform(option) \in Range(options(w, s))
          THEN [SectionDelItem(w, s, optionxform(option)) EXCEPT !.flag = TRUE]
          ELSE OkFlag(w, FALSE)

\* Document.items(): (name, Section) pairs in structure order
DocItems(w) ==
  [i \in 1..Len(section_blocks(w)) |->
     <<w.h[section_blocks(w)[i]].name, section_blocks(w)[i]>>]

\* Document.items(section): the (key, Option) pairs of the named section
DocItemsOf(w, section) ==
  IF DocGetItem(w, section).err # "" THEN Raise(w, "KeyError")
  ELSE Ok(w, [i \in 1..Len(option_blocks(w, DocGetItem(w, section).ret)) |->
                <<Key(w, option_blocks(w, DocGetItem(w, section).ret)[i]),
                  option_blocks(w, DocGetItem(w, section).ret)[i]>>])

\* Document.__iter__: the names of the Section blocks, in structure order
DocIter(w) ==
  LET bs == SelectSeq(w.d, LAMBDA b : w.h[b].kind = "section")
  IN [i \in 1..Len(bs) |-> w.h[bs[i]].name]

\* ------------------------------------------------------------ BlockBuilder
\* block.add_before / block.add_after followed by .comment(line): resolving the
\* anchor fails on a detached block; else a fresh Comment (id) goes in at the anchor
BuilderComment(w, block, after, line, id) ==
  LET ci == ContainerIdx(w, block)
      c == w.h[block].container
  IN IF ci.err # "" THEN Raise(w, ci.err)
     ELSE Ok(SetStructure(AddLine(NewBlock(w, id, "comment", c), id, line), c,
                InsertAt(Structure(w, c), ci.ret + (IF after THEN 1 ELSE 0), id)), None)

\* block.add_before / block.add_after followed by .option(key, value)
BuilderOption(w, block, after, key, value, id) ==
  LET ci == ContainerIdx(w, block)
      c == w.h[block].container
  IN IF ci.err # "" THEN Raise(w, ci.err)
     ELSE IF c = Doc THEN Raise(w, "ValueError")
     ELSE IF optionxform(key) \in Range(options(w, c)) THEN Raise(w, "DuplicateOptionError")
     ELSE Ok(SetStructure(OptionSetValue(NewOption(w, id, key, value, c), id, value), c,
                InsertAt(Structure(w, c), ci.ret + (IF after THEN 1 ELSE 0), id)), None)

\* whether the builder call constructs a block: it does unless it raises
BuilderCommentCreates(w, block) == ContainerIdx(w, block).err = ""

BuilderOptionCreates(w, block, key) ==
  /\ ContainerIdx(w, block).err = ""
  /\ w.h[block].container # Doc
  /\ optionxform(key) \notin Range(options(w, w.h[block].container))

\* ------------------------------------------------------------ deepcopy
NthFree(w, n) == CHOOSE i \in FreeIds(w) : Cardinality({j \in FreeIds(w) : j < i}) = n - 1

\* a copy that shares the blocks of the original instead of copying them
DeepCopyShallow(w, s) ==
  Ok([w EXCEPT !.h[NthFree(w, 1)] = [w.h[s] EXCEPT !.container = None]], NthFree(w, 1))

\* a copy whose blocks still name the original as their container
DeepCopyNotRehomed(w, s) ==
  LET st == w.h[s].structure
      c == NthFree(w, 1)
      copyOf == [k \in 1..Len(st) |-> NthFree(w, k + 1)]
  IN Ok([w EXCEPT !.h = [i \in Ids |->
            IF i = c THEN [w.h[s] EXCEPT !.container = None, !.structure = copyOf]
            ELSE IF i \in Range(copyOf) THEN w.h[st[IndexOf(copyOf, i)]]
                 ELSE w.h[i]]], c)

\* deepcopy(section): the copy gets the first free id and no container; its
\* blocks are copies (the next free ids) whose container is the copy
DeepCopy(w, s) ==
  LET st == w.h[s].structure
      c == NthFree(w, 1)
      copyOf == [k \in 1..Len(st) |-> NthFree(w, k + 1)]
  IN Ok([w EXCEPT !.h = [i \in Ids |->
            IF i = c THEN [w.h[s] EXCEPT !.container = None, !.structure = copyOf]
            ELSE IF i \in Range(copyOf)
                 THEN [w.h[st[IndexOf(copyOf, i)]] EXCEPT !.container = c]
                 ELSE w.h[i]]], c)

\* ------------------------------------------------------------ Parser
LineAlphabet ==
  { <<"hdr", "a", "">>, <<"hdr", "a", " ;x">>, <<"hdr", "b", "">>,
    <<"opt", "k", "v">>, <<"opt", "K", "v">>, <<"opt", "m", NoValueTxt>>,
    <<"cont", "y", "">>, <<"cmt", "# c", "">>, <<"blank", "", "">> }

\* one line of input; ps = [w, cur, err], cur the section being filled
ParseLine(ps, line) ==
  LET w == ps.w
      id == Alloc(w)
      bad(e) == [ps EXCEPT !.err = e]
  IN IF ps.err # "" THEN ps
     ELSE IF line[1] = "hdr"
     THEN LET r == add_section(AddLine(NewSection(w, id, line[2], Doc), id, line),
                               "section", line[2], id, None)
          IN IF r.err # "" THEN bad(r.err) ELSE [w |-> r.w, cur |-> id, err |-> ""]
     ELSE IF line[1] = "opt"
     THEN IF ps.cur = None THEN bad("MissingSectionHeaderError")
          ELSE IF SectionContains(w, ps.cur, optionxform(line[2]))
          THEN bad("DuplicateOptionError")
          ELSE [ps EXCEPT !.w = add_option(
                  AddLine(NewOption(w, id, line[2],
                                    IF line[3] = NoValueTxt THEN NoneValue ELSE <<line[3]>>,
                                    ps.cur), id, line), ps.cur, id).w]
     ELSE IF line[1] = "cont"
     THEN IF ps.cur = None \/ LastBlock(w, ps.cur) = None THEN bad("ParsingError")
          ELSE IF w.h[LastBlock(w, ps.cur)].kind # "option"
                  \/ w.h[LastBlock(w, ps.cur)].value = NoneValue
          THEN bad("ParsingError")
          ELSE [ps EXCEPT !.w = [AddLine(w, LastBlock(w, ps.cur), line)
                   EXCEPT !.h[LastBlock(w, ps.cur)].value = Append(@, line[2])]]
     ELSE IF line[1] = "cmt"
     THEN IF ps.cur = None THEN [ps EXCEPT !.w = AddRun(w, Doc, "comment", line, id)]
          ELSE [ps EXCEPT !.w = add_comment(w, ps.cur, line, id).w]
     ELSE IF ps.cur = None THEN [ps EXCEPT !.w = AddRun(w, Doc, "space", line, id)]
          ELSE [ps EXCEPT !.w = add_space(w, ps.cur, line, id).w]

RECURSIVE ParseFrom(_, _)
ParseFrom(ps, text) ==
  IF text = <<>> THEN ps ELSE ParseFrom(ParseLine(ps, Head(text)), Tail(text))

\* Parser().read_string(text)
Parse(text) == ParseFrom([w |-> EmptyWorld, cur |-> None, err |-> ""], text)

Texts == UNION {[1..n -> LineAlphabet] : n \in 0..MaxLines}

\* ------------------------------------------------------------ state
VARIABLES
  world,   \* [h: the heap of objects, d: the document's structure]
  clone,   \* the deep copy made of a section (None before)
  orig,    \* the section that was copied (None before)
  last,    \* the last operation: its arguments, its result, the error it raised
  steps,   \* operations done so far
  text,    \* the source text the document was parsed from
  out,     \* the last rendering taken of the document
  phase    \* "text": not parsed yet, "parsed", "rendered"

vars == <<world, clone, orig, last, steps, text, out, phase>>

NoLast == [op |-> "init", err |-> "", ret |-> None, flag |-> FALSE, kind |-> "",
           sec |-> None, name |-> "", key |-> "", obj |-> None, val |-> <<>>]

Text1 == << <<"hdr", "a", " ;x">>, <<"opt", "K", "x">>, <<"hdr", "b", "">> >>
Text2 == << <<"cmt", "# c", "">>, <<"hdr", "a", "">>, <<"opt", "k", "x">>,
            <<"cont", "y", "">> >>
Text4 == << <<"hdr", "a", "">>, <<"opt", "K", "x">>, <<"hdr", "b", "">>,
            <<"opt", "m", "x">>, <<"opt", "k", "v">> >>
InitTexts == {Text1, Text2, Text4}

\* the document as the parser built it from one of the texts
InitParsed(texts) ==
  /\ text \in texts
  /\ world = Parse(text).w
  /\ clone = None /\ orig = None
  /\ last = NoLast
  /\ steps = 0
  /\ out = <<>>
  /\ phase = "parsed"

Init == InitParsed(InitTexts)

\* an operation's result becomes the state; `a` records its arguments
Done(r, a) ==
  /\ world' = r.w
  /\ last' = [a EXCEPT !.err = r.err, !.ret = r.ret, !.flag = r.flag]
  /\ steps' = steps + 1
  /\ UNCHANGED <<clone, orig, text, out, phase>>

\* ------------------------------------------------------------ Document operations
\* doc.add_section(name)
AddSectionStr ==
  /\ steps < MaxOps
  /\ \E name \in Names :
       /\ ~DocContains(world, name) => HasFree(world, 1)
       /\ Done(add_section(world, "str", name, None, Fresh(world)),
            [NoLast EXCEPT !.op = "add_section", !.kind = "str", !.name = name])

\* doc.add_section(section_object)
AddSectionObj ==
  /\ steps < MaxOps
  /\ \E sec \in SectionIds(world) :
       Done(add_section(world, "section", world.h[sec].name, sec, None),
            [NoLast EXCEPT !.op = "add_section", !.kind = "section",
                           !.name = world.h[sec].name, !.obj = sec])

\* doc.add_section(x), x neither a string nor a Section
AddSectionOther ==
  /\ steps < MaxOps
  /\ Done(add_section(world, "other", "", None, None),
          [NoLast EXCEPT !.op = "add_section", !.kind = "other"])

\* doc[key] = section_object
DocSetItemSection ==
  /\ steps < MaxOps
  /\ \E key \in Names, value \in SectionIds(world) :
       Done(DocSetItem(world, key, TRUE, value),
            [NoLast EXCEPT !.op = "doc_setitem", !.kind = "section", !.name = key,
                           !.obj = value])

\* doc[key] = x, x not a Section
DocSetItemOther ==
  /\ steps < MaxOps
  /\ \E key \in Names :
       Done(DocSetItem(world, key, FALSE, None),
            [NoLast EXCEPT !.op = "doc_setitem", !.kind = "other", !.name = key])

\* section.name = name
SetSectionName ==
  /\ steps < MaxOps
  /\ \E s \in SectionIds(world), name \in Names :
       Done(Ok(SetName(world, s, name), None),
            [NoLast EXCEPT !.op = "set_name", !.sec = s, !.name = name])

\* doc.remove_section(name)
RemoveSection ==
  /\ steps < MaxOps
  /\ \E name \in Names :
       Done(remove_section(world, name),
            [NoLast EXCEPT !.op = "remove_section", !.name = name,
                           !.obj = get_section(world, name, None)])

\* del doc[key]
DocDelItemAct ==
  /\ steps < MaxOps
  /\ \E key \in Names :
       Done(DocDelItem(world, key),
            [NoLast EXCEPT !.op = "doc_delitem", !.name = key,
                           !.obj = get_section(world, key, None)])

\* doc.set(section, option, value)
DocSetAct ==
  /\ steps < MaxOps
  /\ \E section \in Names, option \in Keys, value \in Values :
       /\ DocSetCreates(world, section, option) => HasFree(world, 1)
       /\ Done(DocSet(world, section, option, value, Fresh(world)),
            [NoLast EXCEPT !.op = "doc_set", !.name = section, !.key = option,
                           !.sec = get_section(world, section, None), !.val = value])

\* doc.remove_option(section, option)
RemoveOption ==
  /\ steps < MaxOps
  /\ \E section \in Names, option \in Keys :
       Done(remove_option(world, section, option),
            [NoLast EXCEPT !.op = "remove_option", !.name = section, !.key = option,
                           !.sec = get_section(world, section, None)])

\* doc.get(section, option) / doc.get(section, option, fallback)
DocGetAct ==
  /\ steps < MaxOps
  /\ \E section \in Names, option \in Keys, fallback \in Fallbacks :
       Done(DocGet(world, section, option, fallback),
            [NoLast EXCEPT !.op = "doc_get", !.name = section, !.key = option,
                           !.obj = fallback])

\* ------------------------------------------------------------ Section operations
\* section[key] = value, value a string or None
SectionSetItemValue ==
  /\ steps < MaxOps
  /\ \E s \in SectionIds(world), key \in Keys, v \in Values :
       /\ SectionSetItemCreates(world, s, key) => HasFree(world, 1)
       /\ Done(SectionSetItem(world, s, key, FALSE, None, v, Fresh(world)),
            [NoLast EXCEPT !.op = "sec_setitem", !.kind = "value", !.sec = s,
                           !.key = key, !.val = v])

\* section[key] = option_object
SectionSetItemOption ==
  /\ steps < MaxOps
  /\ \E s \in SectionIds(world), key \in Keys, o \in OptionIds(world) :
       Done(SectionSetItem(world, s, key, TRUE, o, <<>>, None),
            [NoLast EXCEPT !.op = "sec_setitem", !.kind = "option", !.sec = s,
                           !.key = key, !.obj = o])

\* del section[key]
SectionDelItemAct ==
  /\ steps < MaxOps
  /\ \E s \in SectionIds(world), key \in Keys :
       Done(SectionDelItem(world, s, key),
            [NoLast EXCEPT !.op = "sec_delitem", !.sec = s, !.key = key])

\* section.set(option, value)
SectionSetAct ==
  /\ steps < MaxOps
  /\ \E s \in SectionIds(world), option \in Keys, value \in Values :
       /\ SectionSetItemCreates(world, s, option) => HasFree(world, 1)
       /\ Done(SectionSet(world, s, option, value, Fresh(world)),
            [NoLast EXCEPT !.op = "sec_set", !.sec = s, !.key = option, !.val = value])

\* section.add_option(option_object)
AddOption ==
  /\ steps < MaxOps
  /\ \E s \in SectionIds(world), o \in OptionIds(world) :
       Done(add_option(world, s, o),
            [NoLast EXCEPT !.op = "add_option", !.sec = s, !.key = world.h[o].name,
                           !.obj = o])

\* doc.has_option(section, option)
DocHasOptionAct ==
  /\ steps < MaxOps
  /\ \E section \in Names, option \in Keys :
       Done(OkFlag(world, DocHasOption(world, section, option)),
            [NoLast EXCEPT !.op = "doc_has_option", !.name = section, !.key = option,
                           !.sec = get_section(world, section, None)])

\* doc.options(section); the list of keys is recorded in `val`
DocOptionsAct ==
  /\ steps < MaxOps
  /\ \E section \in Names :
       Done([DocOptions(world, section) EXCEPT !.ret = None],
            [NoLast EXCEPT !.op = "doc_options", !.name = section,
                           !.sec = get_section(world, section, None),
                           !.val = DocOptions(world, section).ret])

\* section[key]
SectionGetItemAct ==
  /\ steps < MaxOps
  /\ \E s \in SectionIds(world), key \in Keys :
       Done(SectionGetItem(world, s, key),
            [NoLast EXCEPT !.op = "sec_getitem", !.sec = s, !.key = key])

\* section.get(key) / section.get(key, default)
SectionGetAct ==
  /\ steps < MaxOps
  /\ \E s \in SectionIds(world), key \in Keys, default \in {None, FallbackX} :
       Done(Ok(world, SectionGet(world, s, key, default)),
            [NoLast EXCEPT !.op = "sec_get", !.sec = s, !.key = key, !.obj = default])

\* key in section
SectionContainsAct ==
  /\ steps < MaxOps
  /\ \E s \in SectionIds(world), key \in Keys :
       Done(OkFlag(world, SectionContains(world, s, key)),
            [NoLast EXCEPT !.op = "sec_contains", !.sec = s, !.key = key])

Next ==
  \/ AddSectionStr \/ AddSectionObj \/ AddSectionOther
  \/ DocSetItemSection \/ DocSetItemOther
  \/ SetSectionName \/ RemoveSection \/ DocDelItemAct
  \/ DocSetAct \/ RemoveOption \/ DocGetAct
  \/ SectionSetItemValue \/ SectionSetItemOption \/ SectionDelItemAct
  \/ SectionSetAct \/ AddOption
  \/ SectionGetItemAct \/ SectionGetAct \/ SectionContainsAct
  \/ DocHasOptionAct \/ DocOptionsAct

Spec == Init /\ [][Next]_vars

\* ------------------------------------------------------------ parse and render
InitText ==
  /\ text \in Texts
  /\ world = EmptyWorld
  /\ clone = None /\ orig = None
  /\ last = NoLast
  /\ steps = 0
  /\ out = <<>>
  /\ phase = "text"

\* Parser().read_string(text): the document, or a parse error
ReadString ==
  /\ phase = "text"
  /\ world' = Parse(text).w
  /\ phase' = IF Parse(text).err = "" THEN "parsed" ELSE "error"
  /\ last' = [NoLast EXCEPT !.op = "read_string", !.err = Parse(text).err]
  /\ UNCHANGED <<clone, orig, steps, text, out>>

\* str(document)
Render ==
  /\ phase = "parsed"
  /\ out' = DocStr(world)
  /\ phase' = "rendered"
  /\ last' = [NoLast EXCEPT !.op = "str"]
  /\ UNCHANGED <<world, clone, orig, steps, text>>

NextParse == ReadString \/ Render

SpecParse == InitText /\ [][NextParse]_vars

\* ------------------------------------------------------------ copy scenario
Text3 == << <<"hdr", "a", " ;x">>, <<"opt", "K", "x">>, <<"cont", "y", "">>,
            <<"cmt", "# c", "">> >>

InitCopy == InitParsed({Text1, Text3})

\* clone = deepcopy(section) of a section attached to the document
DeepCopyAct ==
  /\ steps < MaxCopyOps /\ clone = None
  /\ \E s \in Range(section_blocks(world)) :
       /\ world.h[s].container = Doc
       /\ HasFree(world, 1 + Len(world.h[s].structure))
       /\ world' = DeepCopy(world, s).w
       /\ clone' = DeepCopy(world, s).ret
       /\ orig' = s
       /\ last' = [NoLast EXCEPT !.op = "deepcopy", !.sec = s, !.obj = s,
                                 !.ret = DeepCopy(world, s).ret]
       /\ steps' = steps + 1
       /\ UNCHANGED <<text, out, phase>>

\* section[key] = value on the original or on the copy
CopySetItem ==
  /\ steps < MaxCopyOps
  /\ \E s \in SectionIds(world), key \in Keys, v \in Values :
       /\ SectionSetItemCreates(world, s, key) => HasFree(world, 1)
       /\ Done(SectionSetItem(world, s, key, FALSE, None, v, Fresh(world)),
            [NoLast EXCEPT !.op = "sec_setitem", !.kind = "value", !.sec = s,
                           !.key = key, !.val = v])

\* section[key] on the original or on the copy
CopyGetItem ==
  /\ steps < MaxCopyOps
  /\ \E s \in SectionIds(world), key \in Keys :
       Done(SectionGetItem(world, s, key),
            [NoLast EXCEPT !.op = "sec_getitem", !.sec = s, !.key = key])

\* option.value = v on an option of the original or of the copy
OptionAssign ==
  /\ steps < MaxCopyOps
  /\ \E o \in OptionIds(world), v \in Values :
       Done(Ok(OptionSetValue(world, o, v), None),
            [NoLast EXCEPT !.op = "option_value", !.sec = world.h[o].container,
                           !.key = world.h[o].name, !.obj = o, !.val = v])

\* option.add_before.option(key, value) / option.add_after.option(key, value);
\* the result names the Option inserted
BuilderOptionAct ==
  /\ steps < MaxCopyOps
  /\ \E o \in OptionIds(world), after \in BOOLEAN, key \in {"K", "M"} :
       /\ BuilderOptionCreates(world, o, key) => HasFree(world, 1)
       /\ Done([BuilderOption(world, o, after, key, <<"v">>, Fresh(world))
               EXCEPT !.ret = (IF BuilderOptionCreates(world, o, key)
                               THEN Fresh(world) ELSE None),
                      !.flag = after],
            [NoLast EXCEPT !.op = "builder_option", !.sec = world.h[o].container,
                           !.key = key, !.obj = o, !.val = <<"v">>])

\* section.add_before.comment(line) / section.add_after.comment(line)
BuilderCommentAct ==
  /\ steps < MaxCopyOps
  /\ \E s \in SectionIds(world), after \in BOOLEAN :
       /\ BuilderCommentCreates(world, s) => HasFree(world, 1)
       /\ Done([BuilderComment(world, s, after, CommentLine, Fresh(world))
               EXCEPT !.ret = (IF BuilderCommentCreates(world, s)
                               THEN Fresh(world) ELSE None),
                      !.flag = after],
            [NoLast EXCEPT !.op = "builder_comment", !.sec = s, !.obj = s])

NextCopy ==
  \/ DeepCopyAct \/ CopySetItem \/ OptionAssign \/ BuilderOptionAct \/ BuilderCommentAct
  \/ CopyGetItem

SpecCopy == InitCopy /\ [][NextCopy]_vars

\* ------------------------------------------------------------ appending to a section
\* the parsed examples, one of them with a section that ends in a comment
InitRuns == InitParsed(InitTexts \cup {Text3})

\* section.add_comment(line)
AddCommentAct ==
  /\ steps < MaxRunOps
  /\ \E s \in SectionIds(world) :
       /\ AddRunCreates(world, s, "comment") => HasFree(world, 1)
       /\ Done(add_comment(world, s, CommentLine, Fresh(world)),
            [NoLast EXCEPT !.op = "add_comment", !.sec = s, !.val = CommentLine])

\* section.add_space(line)
AddSpaceAct ==
  /\ steps < MaxRunOps
  /\ \E s \in SectionIds(world) :
       /\ AddRunCreates(world, s, "space") => HasFree(world, 1)
       /\ Done(add_space(world, s, SpaceLine, Fresh(world)),
            [NoLast EXCEPT !.op = "add_space", !.sec = s, !.val = SpaceLine])

\* section.add_option(option_object)
RunAddOption ==
  /\ steps < MaxRunOps
  /\ \E s \in SectionIds(world), o \in OptionIds(world) :
       Done(add_option(world, s, o),
            [NoLast EXCEPT !.op = "add_option", !.sec = s, !.key = world.h[o].name,
                           !.obj = o])

NextRuns == AddCommentAct \/ AddSpaceAct \/ RunAddOption

SpecRuns == InitRuns /\ [][NextRuns]_vars

\* ============================================================ claims
\* C1: round trip.  For every valid input text, the document the parser builds
\* renders (the concatenation of its blocks' renderings in container order, an
\* unmodified section rendering its captured header and then its blocks) to
\* exactly the input text, both when rendered on the spot and in the rendering
\* the caller took.
RoundTrip ==
  /\ phase \in {"parsed", "rendered"} => DocStr(world) = text
  /\ phase = "rendered" => out = text

\* a rendered text with a header that differs from its synthesized form, an
\* option and a continuation line
RoundTripWitness ==
  /\ phase = "rendered"
  /\ Len(text) = 3
  /\ text[1] = <<"hdr", "a", " ;x">>
  /\ text[2][1] = "opt"
  /\ text[3][1] = "cont"
  /\ out = text

\* the Section blocks of the document named `name`, and the first of them
SectionsNamed(w, name) ==
  {i \in 1..Len(w.d) : w.h[w.d[i]].kind = "section" /\ w.h[w.d[i]].name = name}
FirstSectionNamed(w, name) ==
  w.d[CHOOSE i \in SectionsNamed(w, name) : \A j \in SectionsNamed(w, name) : i <= j]

\* the Option blocks a section holds under the normalized form of `key`
HeldOptions(w, s, key) ==
  {o \in Range(w.h[s].structure) :
     w.h[o].kind = "option" /\ optionxform(w.h[o].name) = optionxform(key)}

\* C3: fallback asymmetry of Document.get(section, option, fallback).  A missing
\* section raises NoSectionError whatever the fallback; with the section there
\* and the normalized option missing, a supplied fallback (None included) is
\* returned and NoOptionError is raised only without one; an existing option is
\* returned whatever the fallback.
FallbackAsymmetry ==
  last.op = "doc_get" =>
    IF SectionsNamed(world, last.name) = {} THEN last.err = "NoSectionError"
    ELSE IF HeldOptions(world, FirstSectionNamed(world, last.name), last.key) = {}
         THEN IF last.obj = UNSET THEN last.err = "NoOptionError"
              ELSE last.err = "" /\ last.ret = last.obj
         ELSE /\ last.err = ""
              /\ last.ret \in HeldOptions(world, FirstSectionNamed(world, last.name), last.key)

\* the option is missing from an existing section and the fallback None comes back
FallbackAsymmetryWitness ==
  /\ last.op = "doc_get"
  /\ SectionsNamed(world, last.name) # {}
  /\ HeldOptions(world, FirstSectionNamed(world, last.name), last.key) = {}
  /\ last.obj = None
  /\ last.err = "" /\ last.ret = None

\* C4: section names are unique within the document after every public
\* operation: no two distinct Section objects held by the document have the
\* same name.
UniqueSectionNames ==
  \A i, j \in 1..Len(world.d) :
    (/\ i # j /\ world.d[i] # world.d[j]
     /\ world.h[world.d[i]].kind = "section" /\ world.h[world.d[j]].kind = "section")
    => world.h[world.d[i]].name # world.h[world.d[j]].name

\* C5: option keys are unique by normalized form within a section after every
\* public operation: no two distinct Option objects held by a section have the
\* same normalized key.
UniqueOptionKeys ==
  \A s \in SectionIds(world) :
    \A i, j \in 1..Len(world.h[s].structure) :
      LET a == world.h[s].structure[i]
          b == world.h[s].structure[j]
      IN (i # j /\ a # b /\ world.h[a].kind = "option" /\ world.h[b].kind = "option")
         => optionxform(world.h[a].name) # optionxform(world.h[b].name)

\* C6: uniqueness enforcement of Document.add_section.  With a value that is
\* neither a string nor a Section it raises and the block sequence is unchanged;
\* with a string or a Section whose name a held section already has it raises
\* DuplicateSectionError and the block sequence is unchanged; otherwise it
\* appends exactly one Section (the object given, or a new one of that name) at
\* the end of the block sequence.
AddSectionEnforcesUniqueness ==
  [][last'.op = "add_section" =>
       IF last'.kind = "other" THEN last'.err # "" /\ world'.d = world.d
       ELSE IF SectionsNamed(world, last'.name) # {}
            THEN last'.err = "DuplicateSectionError" /\ world'.d = world.d
            ELSE /\ last'.err = ""
                 /\ Len(world'.d) = Len(world.d) + 1
                 /\ SubSeq(world'.d, 1, Len(world.d)) = world.d
                 /\ LET x == world'.d[Len(world'.d)]
                    IN /\ world'.h[x].kind = "section"
                       /\ world'.h[x].name = last'.name
                       /\ IF last'.kind = "section" THEN x = last'.obj
                          ELSE world.h[x].kind = "free"]_vars

\* add_section was handed a Section object whose name is taken and raised
AddSectionWitness ==
  /\ last.op = "add_section" /\ last.kind = "section"
  /\ last.err = "DuplicateSectionError"
  /\ Cardinality(SectionsNamed(world, last.name)) = 1

\* C7: atomicity on error.  Whenever doc[key] = value, del doc[key],
\* Document.set, Document.remove_option, section[key] = value or
\* del section[key] raises, the document is as before the call: the same
\* blocks in the same order, every section with the same name, updated flag
\* and blocks.
AtomicOnError ==
  [][(/\ last'.err # ""
      /\ last'.op \in {"doc_setitem", "doc_delitem", "doc_set", "remove_option",
                       "sec_setitem", "sec_delitem"})
     => /\ world'.d = world.d
        /\ \A s \in SectionIds(world) :
             /\ world'.h[s].name = world.h[s].name
             /\ world'.h[s].updated = world.h[s].updated
             /\ world'.h[s].structure = world.h[s].structure]_vars

\* C8: ownership back-references.  Every block held in a container's sequence
\* has that container as its container, and a block that references a
\* container is held in that container's sequence.
BackReferences ==
  /\ \A b \in Range(world.d) : world.h[b].container = Doc
  /\ \A s \in SectionIds(world) :
       \A b \in Range(world.h[s].structure) : world.h[b].container = s
  /\ \A b \in Ids :
       /\ (world.h[b].kind # "free" /\ world.h[b].container = Doc) => b \in Range(world.d)
       /\ (world.h[b].kind # "free" /\ world.h[b].container \in Ids)
            => b \in Range(world.h[world.h[b].container].structure)

\* C2: copy isolation.  The deep copy of an attached section renders the same
\* text as the section and is detached (reading its container raises
\* NotAttachedError) while the section's container is still the document;
\* afterwards an operation on the copy changes neither the rendering nor the
\* option membership of the section or the document, and an operation on the
\* section or the document changes neither the rendering nor the option
\* membership of the copy.
CopyIsolation ==
  [][/\ last'.op = "deepcopy" =>
          /\ SectionStr(world', clone') = SectionStr(world', orig')
          /\ Container(world', clone').err = "NotAttachedError"
          /\ Container(world', orig').err = "" /\ Container(world', orig').ret = Doc
          /\ DocStr(world') = DocStr(world)
     /\ (clone # None /\ last'.op # "deepcopy") =>
          IF last'.sec = clone
          THEN /\ DocStr(world') = DocStr(world)
               /\ sections(world') = sections(world)
               /\ SectionStr(world', orig) = SectionStr(world, orig)
               /\ options(world', orig) = options(world, orig)
          ELSE /\ SectionStr(world', clone) = SectionStr(world, clone)
               /\ options(world', clone) = options(world, clone)]_vars

\* an option was inserted through the builder of an option of the copy: the
\* copy has it, the original has not, and the document still renders the source
CopyIsolationWitness ==
  /\ clone # None
  /\ last.op = "builder_option" /\ last.err = "" /\ last.sec = clone
  /\ SectionContains(world, clone, "m") /\ ~SectionContains(world, orig, "m")
  /\ SectionStr(world, clone) # SectionStr(world, orig)
  /\ DocStr(world) = text

\* C9: structural mutation on a detached block fails.  Asking the copy of a
\* section for a builder and inserting a comment raises NotAttachedError and
\* leaves the copy (and everything else) unchanged; the same insertion on an
\* attached section succeeds, the comment is in the document's rendering and
\* not in the copy's.
DetachedBuilderFails ==
  [][last'.op = "builder_comment" =>
       IF clone # None /\ last'.sec = clone
       THEN /\ last'.err = "NotAttachedError"
            /\ world'.h[clone].structure = world.h[clone].structure
            /\ world' = world
       ELSE /\ last'.err = ""
            /\ CommentLine \in Range(DocStr(world'))
            /\ Len(DocStr(world')) = Len(DocStr(world)) + 1
            /\ clone # None => CommentLine \notin Range(SectionStr(world', clone))]_vars

\* the builder of the copy raised after the same insertion on the original went in
DetachedBuilderWitness ==
  /\ clone # None
  /\ last.op = "builder_comment" /\ last.sec = clone
  /\ last.err = "NotAttachedError"
  /\ CommentLine \in Range(DocStr(world))
  /\ CommentLine \notin Range(SectionStr(world, clone))

\* C10: re-homing in copies.  Every option of the copy has the copy as its
\* container and every option of the original the original; an option inserted
\* through the builder of an option is held by that option's section, has it as
\* its container and is not held by the other of the two; no object is held by
\* both the original and the copy.
ReHoming ==
  clone # None =>
    /\ \A o \in Range(option_blocks(world, clone)) : world.h[o].container = clone
    /\ \A o \in Range(option_blocks(world, orig)) : world.h[o].container = orig
    /\ Range(world.h[clone].structure) \cap Range(world.h[orig].structure) = {}
    /\ (last.op = "builder_option" /\ last.err = "") =>
         /\ last.ret \in Range(world.h[last.sec].structure)
         /\ world.h[last.ret].kind = "option"
         /\ world.h[last.ret].container = last.sec
         /\ last.sec = clone => last.ret \notin Range(world.h[orig].structure)
         /\ last.sec = orig => last.ret \notin Range(world.h[clone].structure)

\* an option went into the copy through the builder of one of the copy's options
ReHomingWitness ==
  /\ clone # None
  /\ last.op = "builder_option" /\ last.err = "" /\ last.sec = clone
  /\ last.ret \in Range(world.h[clone].structure)
  /\ world.h[last.ret].container = clone
  /\ world.h[last.obj].container = clone

\* C11: the option mapping stays usable on a detached copy.  On the copy of a
\* section, clone[key] and clone[key] = value for a key the copy holds complete
\* without error, the lookup returns the copy's option, the assignment changes
\* the copy's rendering when the value is new, and the document's rendering is
\* what it was.
DetachedMapping ==
  [][(/\ clone # None /\ last'.sec = clone
      /\ last'.op \in {"sec_getitem", "sec_setitem"}
      /\ HeldOptions(world, clone, last'.key) # {}) =>
       /\ last'.err = ""
       /\ DocStr(world') = DocStr(world)
       /\ last'.op = "sec_getitem" => last'.ret \in HeldOptions(world, clone, last'.key)
       /\ (last'.op = "sec_setitem" /\
             \A o \in HeldOptions(world, clone, last'.key) : world.h[o].value # last'.val)
            => SectionStr(world', clone) # SectionStr(world, clone)]_vars

\* C12: del section[key] removes by normalized key.  When the section holds an
\* option under the normalized form of the key, the deletion completes and the
\* structure afterwards is the structure before without that one block; it
\* raises KeyError, with nothing changed, only when no option has that key.
DelByNormalizedKey ==
  [][last'.op = "sec_delitem" =>
       LET s == last'.sec
           held == HeldOptions(world, s, last'.key)
       IN IF held # {}
          THEN /\ last'.err = ""
               /\ \E i \in 1..Len(world.h[s].structure) :
                    /\ world.h[s].structure[i] \in held
                    /\ world'.h[s].structure = RemoveAt(world.h[s].structure, i)
          ELSE /\ last'.err = "KeyError"
               /\ world' = world]_vars

\* C13: the Section lookups agree on normalized keys.  For a key in any case,
\* section[key] returns the option held under its normalized form, section.get
\* returns that same option and `key in section` is true; when no option has
\* that normalized key section[key] raises KeyError, section.get returns the
\* default handed in (None when there is none) and `key in section` is false.
LookupsAgree ==
  LET held == HeldOptions(world, last.sec, last.key)
      first == FirstOption(world, last.sec, optionxform(last.key), None)
  IN /\ last.op = "sec_getitem" =>
          IF held # {} THEN last.err = "" /\ last.ret = first
          ELSE last.err = "KeyError"
     /\ last.op = "sec_get" =>
          /\ last.err = ""
          /\ last.ret = (IF held # {} THEN first ELSE last.obj)
     /\ last.op = "sec_contains" =>
          /\ last.err = ""
          /\ last.flag = (held # {})

\* C14: section[key] = value has three outcomes on success.  With the key held
\* and value an Option whose stored key is the key, value takes the place of the
\* old Option at its index and every other block keeps its index; with the key
\* held and a plain value the structure is as before and the held Option has
\* the value; with the key not held exactly one Option is appended (value itself
\* when it is an Option, a fresh one otherwise) and the blocks before keep their
\* index.  With the key held and an Option whose stored key differs, it fails.
SetItemOutcomes ==
  [][last'.op = "sec_setitem" =>
       LET s == last'.sec
           st == world.h[s].structure
           st2 == world'.h[s].structure
           held == HeldOptions(world, s, last'.key)
       IN IF held # {}
          THEN IF last'.kind = "option"
               THEN IF Key(world, last'.obj) = last'.key
                    THEN /\ last'.err = ""
                         /\ \E i \in 1..Len(st) :
                              /\ st[i] \in held
                              /\ st2 = [st EXCEPT ![i] = last'.obj]
                    ELSE last'.err # "" /\ world' = world
               ELSE /\ last'.err = ""
                    /\ st2 = st
                    /\ \E o \in held : world'.h[o].value = last'.val
          ELSE /\ last'.err = ""
               /\ Len(st2) = Len(st) + 1
               /\ SubSeq(st2, 1, Len(st)) = st
               /\ world'.h[st2[Len(st2)]].kind = "option"
               /\ last'.kind = "option" => st2[Len(st2)] = last'.obj
               /\ last'.kind = "value" =>
                    /\ world.h[st2[Len(st2)]].kind = "free"
                    /\ world'.h[st2[Len(st2)]].value = last'.val]_vars

\* C15: Section.set and Document.set never swap Option objects.  With the
\* normalized key held the structure is as before and the held Option has the
\* value; with it not held exactly one fresh Option with that key and value is
\* appended.  After either call the section holds exactly one option under that
\* normalized key, and its value is the value.  Section.set returns the
\* section, Document.set the document; Document.set raises NoSectionError,
\* changing nothing, when the section does not exist.
SetKeepsObjects ==
  [][last'.op \in {"sec_set", "doc_set"} =>
       IF last'.op = "doc_set" /\ SectionsNamed(world, last'.name) = {}
       THEN last'.err = "NoSectionError" /\ world' = world
       ELSE LET s == IF last'.op = "sec_set" THEN last'.sec
                     ELSE FirstSectionNamed(world, last'.name)
                st == world.h[s].structure
                st2 == world'.h[s].structure
                held == HeldOptions(world, s, last'.key)
                held2 == HeldOptions(world', s, last'.key)
            IN /\ last'.err = ""
               /\ last'.ret = (IF last'.op = "sec_set" THEN s ELSE Doc)
               /\ IF held # {}
                  THEN st2 = st
                  ELSE /\ Len(st2) = Len(st) + 1
                       /\ SubSeq(st2, 1, Len(st)) = st
                       /\ world.h[st2[Len(st2)]].kind = "free"
                       /\ st2[Len(st2)] \in held2
               /\ Cardinality(held2) = 1
               /\ \A o \in held2 : world'.h[o].value = last'.val]_vars

\* the blocks of `seq` of the given kind, one by one from the front
RECURSIVE BlocksOfKind(_, _, _)
BlocksOfKind(w, seq, kind) ==
  IF seq = <<>> THEN <<>>
  ELSE (IF w.h[Head(seq)].kind = kind THEN <<Head(seq)>> ELSE <<>>)
       \o BlocksOfKind(w, Tail(seq), kind)

\* C16: ordering preservation.  After any sequence of insertions, replacements
\* and removals Document.items(), sections() and iteration list the sections in
\* the order of the Section blocks of the document's block sequence, and
\* Section.items(), options(), iteration and Document.items(name) list the
\* options in the order of the Option blocks of the section's block sequence:
\* other blocks are skipped, nothing is sorted, nothing is dropped as duplicate.
OrderingPreserved ==
  LET secs == BlocksOfKind(world, world.d, "section")
  IN /\ section_blocks(world) = secs
     /\ DocItems(world) = [i \in 1..Len(secs) |-> <<world.h[secs[i]].name, secs[i]>>]
     /\ sections(world) = [i \in 1..Len(secs) |-> world.h[secs[i]].name]
     /\ DocIter(world) = [i \in 1..Len(secs) |-> world.h[secs[i]].name]
     /\ \A s \in SectionIds(world) :
          LET opts == BlocksOfKind(world, world.h[s].structure, "option")
              pairs == [i \in 1..Len(opts) |-> <<optionxform(world.h[opts[i]].name), opts[i]>>]
              keys == [i \in 1..Len(opts) |-> optionxform(world.h[opts[i]].name)]
          IN /\ option_blocks(world, s) = opts
             /\ SectionItems(world, s) = pairs
             /\ options(world, s) = keys
             /\ SectionIter(world, s) = keys
     /\ \A n \in Names :
          IF SectionsNamed(world, n) = {} THEN DocItemsOf(world, n).err = "KeyError"
          ELSE /\ DocItemsOf(world, n).err = ""
               /\ DocItemsOf(world, n).ret =
                    SectionItems(world, FirstSectionNamed(world, n))

\* an operation went through on a document that lists two sections, one of
\* them listing three options with m before k and one key twice
OrderingWitness ==
  /\ last.op \in {"add_section", "doc_setitem", "remove_section", "sec_setitem",
                   "sec_delitem", "add_option"}
  /\ last.err = ""
  /\ Len(sections(world)) >= 2
  /\ \E s \in SectionIds(world) :
       /\ Len(options(world, s)) >= 3
       /\ \E i, j \in 1..Len(options(world, s)) :
            i < j /\ options(world, s)[i] = "m" /\ options(world, s)[j] = "k"
       /\ \E i, j \in 1..Len(options(world, s)) :
            i < j /\ options(world, s)[i] = options(world, s)[j]
       /\ Len(SectionItems(world, s)) = Len(options(world, s))

\* C17: a newly constructed section is dirty.  The section that
\* add_section(name) creates from a string counts as updated and its rendering
\* begins with the synthesized header [name]; after an assignment to a
\* section's name the section counts as updated and its rendering begins with
\* the synthesized header of the new name.
NewSectionDirty ==
  /\ (last.op = "add_section" /\ last.kind = "str" /\ last.err = "") =>
       LET s == LastBlock(world, Doc)
       IN /\ world.h[s].kind = "section" /\ world.h[s].name = last.name
          /\ Updated(world, s)
          /\ Head(SectionStr(world, s)) = <<"hdr", last.name, "">>
          /\ Head(SelectSeq(DocStr(world), LAMBDA l : l[1] = "hdr" /\ l[2] = last.name))
               = <<"hdr", last.name, "">>
  /\ last.op = "set_name" =>
       /\ world.h[last.sec].name = last.name
       /\ Updated(world, last.sec)
       /\ Head(SectionStr(world, last.sec)) = <<"hdr", last.name, "">>

\* a section was added by name to a document that holds a parsed section
\* renamed before, whose captured header carries the old name
NewSectionWitness ==
  /\ last.op = "add_section" /\ last.kind = "str" /\ last.err = ""
  /\ world.h[LastBlock(world, Doc)].lines = <<>>
  /\ Head(SectionStr(world, LastBlock(world, Doc))) = <<"hdr", last.name, "">>
  /\ \E t \in Range(section_blocks(world)) :
       /\ world.h[t].lines # <<>>
       /\ world.h[t].lines[1][2] # world.h[t].name
       /\ Head(SectionStr(world, t)) = <<"hdr", world.h[t].name, "">>

\* C18: set-then-get on the Document mapping.  Whenever doc[key] = section
\* completes for a Section value, key is in the document, doc[key] is that
\* section object and its name is the key; with the key absent before the
\* section went to the end, with the key present it took the place of the old
\* section at its index and every other block kept its index.
SetThenGet ==
  [][(last'.op = "doc_setitem" /\ last'.kind = "section" /\ last'.err = "") =>
       /\ DocContains(world', last'.name)
       /\ DocGetItem(world', last'.name).ret = last'.obj
       /\ world'.h[last'.obj].name = last'.name
       /\ IF SectionsNamed(world, last'.name) = {}
          THEN world'.d = Append(world.d, last'.obj)
          ELSE \E i \in SectionsNamed(world, last'.name) :
                 world'.d = [world.d EXCEPT ![i] = last'.obj]]_vars

\* C19: removal postcondition.  When a section has the name,
\* remove_section(name) returns True and del doc[name] completes, the block
\* sequence afterwards is the one before without one block of that name, and
\* the name is no longer in the document; when none has it remove_section
\* returns False, del doc[name] raises KeyError and nothing changes.  After a
\* del section[key] that completes and after a remove_option that returns True
\* the section holds no option under that key.
RemovalPostcondition ==
  [][/\ last'.op \in {"remove_section", "doc_delitem"} =>
          IF SectionsNamed(world, last'.name) # {}
          THEN /\ last'.err = ""
               /\ last'.op = "remove_section" => last'.flag
               /\ \E i \in SectionsNamed(world, last'.name) :
                    world'.d = RemoveAt(world.d, i)
               /\ world'.h = world.h
               /\ ~DocContains(world', last'.name)
          ELSE /\ world' = world
               /\ last'.op = "remove_section" => last'.err = "" /\ ~last'.flag
               /\ last'.op = "doc_delitem" => last'.err = "KeyError"
     /\ (last'.op = "sec_delitem" /\ last'.err = "") =>
          HeldOptions(world', last'.sec, last'.key) = {}
     /\ (last'.op = "remove_option" /\ last'.err = "" /\ last'.flag) =>
          HeldOptions(world', last'.sec, last'.key) = {}]_vars

\* no two neighbours in the section's block sequence are both Comment blocks
\* or both Space blocks
NoAdjacentRuns(w, s) ==
  \A i \in 1..(Len(w.h[s].structure) - 1) :
    ~(/\ w.h[w.h[s].structure[i]].kind \in {"comment", "space"}
      /\ w.h[w.h[s].structure[i]].kind = w.h[w.h[s].structure[i+1]].kind)

\* C20: merge rule for runs.  After every add_comment, add_space or add_option
\* on a section no two adjacent blocks of it are both Comment or both Space.
\* add_comment (add_space) opens a new block, holding just the line, only when
\* the last block is no Comment (Space); otherwise the block sequence stays and
\* the line is appended to the last block; either way the line is the last
\* line of the section's last block.  add_option appends the option.  Each of
\* the three returns the section.
MergeRule ==
  [][last'.op \in {"add_comment", "add_space", "add_option"} =>
       LET s == last'.sec
           st == world.h[s].structure
           st2 == world'.h[s].structure
           kind == IF last'.op = "add_comment" THEN "comment" ELSE "space"
           lb == LastBlock(world, s)
           lb2 == LastBlock(world', s)
       IN /\ last'.err = "" /\ last'.ret = s
          /\ \A t \in SectionIds(world') : NoAdjacentRuns(world', t)
          /\ last'.op = "add_option" => st2 = Append(st, last'.obj)
          /\ last'.op \in {"add_comment", "add_space"} =>
               /\ IF lb # None /\ world.h[lb].kind = kind
                  THEN /\ st2 = st
                       /\ world'.h[lb].lines = Append(world.h[lb].lines, last'.val)
                  ELSE /\ st2 = Append(st, lb2)
                       /\ world.h[lb2].kind = "free"
                       /\ world'.h[lb2].lines = <<last'.val>>
               /\ world'.h[lb2].kind = kind
               /\ world'.h[lb2].lines[Len(world'.h[lb2].lines)] = last'.val]_vars

\* a comment line was merged into the comment block that ends a section which
\* also holds an option and a blank-line block
MergeRuleWitness ==
  /\ last.op = "add_comment" /\ last.err = "" /\ last.ret = last.sec
  /\ Len(world.h[LastBlock(world, last.sec)].lines) >= 2
  /\ world.h[LastBlock(world, last.sec)].kind = "comment"
  /\ \E b \in Range(world.h[last.sec].structure) : world.h[b].kind = "space"
  /\ \E b \in Range(world.h[last.sec].structure) : world.h[b].kind = "option"

\* C21: the dirty flag of a section is monotone.  Assigning a section's name
\* (the name it has or its parsed name included) sets the flag, and so does a
\* doc[key] = section that completes with a key not in the document before;
\* once the flag is set no operation of Section or Document clears it, and the
\* rendering of the section then starts with the synthesized [name] line.
DirtyMonotone ==
  [][/\ last'.op = "set_name" => world'.h[last'.sec].updated
     /\ (/\ last'.op = "doc_setitem" /\ last'.kind = "section" /\ last'.err = ""
         /\ SectionsNamed(world, last'.name) = {}) => world'.h[last'.obj].updated
     /\ \A s \in SectionIds(world) :
          /\ Updated(world, s) => s \in SectionIds(world') /\ Updated(world', s)
          /\ world.h[s].updated =>
               /\ s \in SectionIds(world') /\ world'.h[s].updated
               /\ Head(SectionStr(world', s)) = <<"hdr", world'.h[s].name, "">>]_vars

\* a parsed section whose captured header is not the synthesized one was
\* assigned the name it already had, another operation went through since,
\* and the section renders with the synthesized header
DirtyMonotoneWitness ==
  /\ last.op \notin {"init", "set_name"} /\ last.err = ""
  /\ \E s \in Range(section_blocks(world)) :
       /\ world.h[s].updated
       /\ world.h[s].lines # <<>>
       /\ world.h[s].lines[1][2] = world.h[s].name
       /\ world.h[s].lines[1] # <<"hdr", world.h[s].name, "">>
       /\ Head(SectionStr(world, s)) = <<"hdr", world.h[s].name, "">>

\* C22: Document.has_option(section, option) never raises and never changes
\* the document: it returns true exactly when a section with that name exists
\* and holds an option under the normalized option name, false when the
\* section is missing.  For a missing section Document.options, Document.set
\* and Document.remove_option raise NoSectionError, changing nothing; for a
\* section that is there options lists its keys and remove_option returns true
\* exactly when has_option was true just before the call.
HasOptionTotal ==
  [][/\ last'.op = "doc_has_option" =>
          /\ last'.err = ""
          /\ world' = world
          /\ last'.flag = (\E i \in SectionsNamed(world, last'.name) :
                              HeldOptions(world, world.d[i], last'.key) # {})
     /\ (/\ last'.op \in {"doc_options", "doc_set", "remove_option"}
         /\ SectionsNamed(world, last'.name) = {}) =>
          /\ last'.err = "NoSectionError"
          /\ world' = world
          /\ ~DocHasOption(world, last'.name, last'.key)
     /\ (last'.op = "doc_options" /\ SectionsNamed(world, last'.name) # {}) =>
          /\ last'.err = ""
          /\ last'.val = options(world, FirstSectionNamed(world, last'.name))
          /\ world' = world
     /\ (last'.op = "remove_option" /\ SectionsNamed(world, last'.name) # {}) =>
          /\ last'.err = ""
          /\ last'.flag = DocHasOption(world, last'.name, last'.key)]_vars

====
